---- MODULE Spec2Model ----
(***************************************************************************)
(* Conversation reconstruction and session bookkeeping of Brother's AI:    *)
(* the chat_history table (NEW_DATABASE_SCHEMA.sql), the data-access       *)
(* functions of src/lib/speech-recognition.ts that append to it, segment   *)
(* it into conversations and delete conversations, and the browser clients *)
(* (App.tsx) that call them concurrently.                                  *)
(***************************************************************************)
EXTENDS Integers, Sequences, FiniteSets, TLC

\* Bound on the clock: Date.now() advances with every insert request.
MaxClock == 3

\* Bound on the ranks of the logs the segmentation is run on.
MaxRank == 6

\* Browser tabs, each running the application.
Clients == {"c1", "c2"}

\* users.user_id of the signed-up users.
Users == {"u", "u1"}

\* The values Math.random().toString(36).substr(2, 9) is drawn from.
RandomSuffixes == {"k3x"}

\* JavaScript null for a string-valued variable.
NULL == "null"

\* The texts a user sends and the texts the assistant answers.
Requests == {"Hello!"}

Responses == {"Hi, how can I help?"}

VARIABLES
  userId,                   \* per client: the signed-in user (App.tsx state userId)
  chat_history,             \* the rows of table chat_history
  now,                      \* Date.now(), in minutes
  pc,                       \* per client: where its pending call stands
  loc,                      \* per client: locals of the pending call
  currentSessionId,         \* per client: module variable of the same name
  currentSessionStartRank,  \* per client: module variable of the same name
  lastOp,                   \* the call that returned in the last step, with its result
  fetched,                  \* the list the last read call returned, emptied by every later
                            \* call that reads or writes the table
  created,                  \* per user: number of createChatEntry calls that returned an id
  maxAssigned,              \* per user: highest rank ever stored for the user
  anyDelete,                \* TRUE once some delete statement has been executed
  sessionFresh,             \* per client: the session was started anew and has stored no
                            \* exchange yet
  users,                    \* users.user_id of the rows of table users
  send,                     \* per client: the handleSendMessage call that is running
  gemini                    \* per client: the GeminiService instance and its running
                            \* generateResponse call

vars == <<userId, chat_history, now, pc, loc, currentSessionId, currentSessionStartRank,
          lastOp, fetched, created, maxAssigned, anyDelete, sessionFresh, users, send,
          gemini>>

----------------------------------------------------------------------------
(* Text conversions *)

Digit(d) ==
  CASE d = 0 -> "0" [] d = 1 -> "1" [] d = 2 -> "2" [] d = 3 -> "3"
    [] d = 4 -> "4" [] d = 5 -> "5" [] d = 6 -> "6" [] d = 7 -> "7"
    [] d = 8 -> "8" [] d = 9 -> "9"

RECURSIVE Dec(_)
\* `${n}` for a non-negative integer n.
Dec(n) == IF n < 10 THEN Digit(n) ELSE Dec(n \div 10) \o Digit(n % 10)

DigitValue(ch) ==
  CASE ch = "0" -> 0 [] ch = "1" -> 1 [] ch = "2" -> 2 [] ch = "3" -> 3
    [] ch = "4" -> 4 [] ch = "5" -> 5 [] ch = "6" -> 6 [] ch = "7" -> 7
    [] ch = "8" -> 8 [] ch = "9" -> 9 [] OTHER -> -1

\* s.replace(pat, ''): removes the first occurrence of pat, if any.
replace(s, pat) ==
  LET n == Len(pat)
      hits == {i \in 1..(Len(s) - n + 1) : SubSeq(s, i, i + n - 1) = pat}
  IN IF hits = {} THEN s
     ELSE LET i == CHOOSE h \in hits : \A g \in hits : h <= g
          IN SubSeq(s, 1, i - 1) \o SubSeq(s, i + n, Len(s))

RECURSIVE parseDigits(_, _, _, _)
parseDigits(s, i, acc, seen) ==
  IF i > Len(s) \/ DigitValue(SubSeq(s, i, i)) < 0
  THEN [nan |-> ~seen, val |-> acc]
  ELSE parseDigits(s, i + 1, 10 * acc + DigitValue(SubSeq(s, i, i)), TRUE)

RECURSIVE skipSpaces(_, _)
skipSpaces(s, i) ==
  IF i <= Len(s) /\ SubSeq(s, i, i) = " " THEN skipSpaces(s, i + 1) ELSE i

\* parseInt(s, 10): leading blanks, an optional sign, then the longest run of
\* digits; NaN when there is no digit.
parseInt(s) ==
  LET i == skipSpaces(s, 1)
      sign == IF i <= Len(s) /\ SubSeq(s, i, i) = "-" THEN -1 ELSE 1
      j == IF i <= Len(s) /\ SubSeq(s, i, i) \in {"-", "+"} THEN i + 1 ELSE i
      r == parseDigits(s, j, 0, FALSE)
  IN [nan |-> r.nan, val |-> sign * r.val]

\* Characters of a conversation title before the dots.
TitleLength == 50

\* Characters of a conversation preview before the dots.
PreviewLength == 100

MinutesPerHour == 60

HoursPerDay == 24

DaysPerWeek == 7

\* s.includes(pat)
includes(s, pat) ==
  \E i \in 1..(Len(s) - Len(pat) + 1) : SubSeq(s, i, i + Len(pat) - 1) = pat

\* s.substring(0, n)
substring(s, n) == SubSeq(s, 1, IF Len(s) < n THEN Len(s) ELSE n)

\* A number below 100 in two digits.
TwoDigits(n) == IF n < 10 THEN "0" \o Dec(n) ELSE Dec(n)

\* date.toLocaleDateString(): the calendar day of the instant.
toLocaleDateString(isoString) == "day " \o Dec(isoString \div (MinutesPerHour * HoursPerDay))

\* formatTimestamp: the age of the instant at the time of the call
\* (new Date() is the clock now).
formatTimestamp(isoString) ==
  LET diffInMinutes == now - isoString
      diffInHours == diffInMinutes \div MinutesPerHour
      diffInDays == diffInMinutes \div (MinutesPerHour * HoursPerDay)
  IN IF diffInMinutes < 1 THEN "Just now"
     ELSE IF diffInMinutes < MinutesPerHour THEN Dec(diffInMinutes) \o " min ago"
     ELSE IF diffInHours < HoursPerDay
          THEN Dec(diffInHours) \o " hour" \o (IF diffInHours > 1 THEN "s" ELSE "") \o " ago"
     ELSE IF diffInDays < DaysPerWeek
          THEN Dec(diffInDays) \o " day" \o (IF diffInDays > 1 THEN "s" ELSE "") \o " ago"
     ELSE toLocaleDateString(isoString)

\* The time of a message shown as an age, as formatTimestamp does.
formatTime_Relative(isoString) ==
  IF now - isoString < 1 THEN "Just now" ELSE Dec(now - isoString) \o " min ago"

\* formatTime: hour and minute of the instant, two digits each.
formatTime(isoString) ==
  LET m == isoString % (MinutesPerHour * HoursPerDay)
  IN TwoDigits(m \div MinutesPerHour) \o ":" \o TwoDigits(m % MinutesPerHour)

\* A test that takes every string for no session.
falsy_Always(s) == TRUE

\* !s for a string or null: true for null and for the empty string.
falsy(s) == s \in {NULL, ""}

\* `session_${Date.now()}_${Math.random().toString(36).substr(2, 9)}`
newSessionId(rnd) == "session_" \o Dec(now) \o "_" \o rnd

----------------------------------------------------------------------------
(* The table *)

\* A table created without the primary key and without the unique index.
InsertAllowed_Unchecked(row, table) == TRUE

\* The primary key on chat_id and the unique index on (user_id, chat_rank).
InsertAllowed(row, table) ==
  /\ \A r \in table : r.chat_id # row.chat_id
  /\ \A r \in table : ~(r.user_id = row.user_id /\ r.chat_rank = row.chat_rank)

\* A table created without the foreign key.
fk_user_Absent(row) == TRUE

\* CONSTRAINT fk_user FOREIGN KEY (user_id) REFERENCES users(user_id)
fk_user(row) == row.user_id \in users

\* The highest of a non-empty set of numbers.
Max(S) == CHOOSE m \in S : \A x \in S : x <= m

RowsOf(table, u) == {r \in table : r.user_id = u}

RanksOf(table, u) == {r.chat_rank : r \in RowsOf(table, u)}

RECURSIVE OrderByRank(_)
\* ORDER BY chat_rank ascending; rows of equal rank come in an order the
\* database chooses.
OrderByRank(rows) ==
  IF rows = {} THEN <<>>
  ELSE LET r == CHOOSE x \in rows : \A y \in rows : x.chat_rank <= y.chat_rank
       IN <<r>> \o OrderByRank(rows \ {r})

\* (maxRankData?.chat_rank || 1) + 1: the first rank of a user would be 2.
nextRankOf_DefaultOne(table, u) ==
  LET rows == RowsOf(table, u)
  IN IF rows = {} THEN 2 ELSE Max({r.chat_rank : r \in rows}) + 1

\* maxRankData?.chat_rank || 0 without the + 1.
nextRankOf_NoIncrement(table, u) ==
  LET rows == RowsOf(table, u)
  IN IF rows = {} THEN 0 ELSE Max({r.chat_rank : r \in rows})

\* select chat_rank ... eq(user_id) order desc limit 1 maybeSingle, then
\* (maxRankData?.chat_rank || 0) + 1
nextRankOf(table, u) ==
  LET rows == RowsOf(table, u)
      maxRankData == IF rows = {} THEN 0
                     ELSE (CHOOSE x \in rows : \A y \in rows : x.chat_rank >= y.chat_rank).chat_rank
  IN maxRankData + 1

----------------------------------------------------------------------------
(* State after page load *)

IdleLoc == [rank |-> 0, endRank |-> 0, maxSeen |-> 0, dirty |-> FALSE,
            userRequest |-> "", aiResponse |-> "",
            messages |-> <<>>, i |-> 0, readFailed |-> FALSE]

\* storage: how the call's last storage request ended; threw: the call ended
\* with an exception thrown to its caller.
NoOp == [op |-> "none", user |-> "", rank |-> 0, ok |-> FALSE, chatId |-> NULL,
         storage |-> "ok", threw |-> FALSE]

\* No handleSendMessage call is running. calls: the arguments of the
\* createChatEntry calls the handler has issued.
NoSend == [phase |-> "idle", isGuest |-> FALSE, content |-> "", aiResponse |-> "",
           calls |-> <<>>]

\* new GeminiService(): the first model name is in use and no
\* generateResponse call is running. invocations, waits: the calls of
\* model.generateContent the running call has made, and the seconds it has
\* waited since it last changed the model.
NewService == [currentModelIndex |-> 0, phase |-> "idle", retryCount |-> 0,
               invocations |-> 0, waits |-> <<>>, result |-> ""]

\* Both tabs signed in as the same user, or as two users.
Logins == {[c \in Clients |-> "u"], [c \in Clients |-> IF c = "c1" THEN "u" ELSE "u1"]}

Init ==
  /\ userId \in Logins
  /\ chat_history = {}
  /\ now = 0
  /\ pc = [c \in Clients |-> "idle"]
  /\ loc = [c \in Clients |-> IdleLoc]
  /\ currentSessionId = [c \in Clients |-> NULL]
  /\ currentSessionStartRank = [c \in Clients |-> 0]
  /\ lastOp = NoOp
  /\ fetched = <<>>
  /\ created = [u \in Users |-> 0]
  /\ maxAssigned = [u \in Users |-> 0]
  /\ anyDelete = FALSE
  /\ sessionFresh = [c \in Clients |-> FALSE]
  /\ send = [c \in Clients |-> NoSend]
  /\ gemini = [c \in Clients |-> NewService]
  /\ users = Users

----------------------------------------------------------------------------
(* Segmentation *)

Reverse(s) == [i \in 1..Len(s) |-> s[Len(s) + 1 - i]]

\* currentConversation = null
NoConversation == [startRank |-> 0, entries |-> <<>>, sessionId |-> ""]

\* The message of an entry for one role.
messageOf(entry, role) ==
  [id |-> entry.chat_id \o "_" \o role,
   content |-> IF role = "user" THEN entry.user_request ELSE entry.ai_response,
   role |-> role,
   timestamp |-> formatTime(entry.created_at)]

\* Every entry expands into the assistant message first.
messagesOf_AssistantFirst(entries) ==
  [j \in 1..(2 * Len(entries)) |->
     messageOf(entries[(j + 1) \div 2], IF j % 2 = 1 THEN "assistant" ELSE "user")]

\* entries.forEach: push the user message, then the assistant message.
messagesOf(entries) ==
  [j \in 1..(2 * Len(entries)) |->
     messageOf(entries[(j + 1) \div 2], IF j % 2 = 1 THEN "user" ELSE "assistant")]

\* The Conversation built from one group; entries keeps the group's rows, from
\* which the messages are derived.
createConversationFromEntries(data) ==
  LET firstEntry == data.entries[1]
      lastEntry == data.entries[Len(data.entries)]
  IN [id |-> data.sessionId,
      title |-> substring(firstEntry.user_request, TitleLength)
                  \o (IF Len(firstEntry.user_request) > TitleLength THEN "..." ELSE ""),
      timestamp |-> formatTimestamp(lastEntry.created_at),
      preview |-> substring(firstEntry.user_request, PreviewLength)
                    \o (IF Len(firstEntry.user_request) > PreviewLength THEN "..." ELSE ""),
      messages |-> messagesOf(data.entries),
      sessionId |-> data.sessionId,
      startRank |-> data.startRank,
      entries |-> data.entries]

\* Every entry opens a conversation of its own.
shouldStartNew_Always(currentConversation, chatHistory, i) == TRUE

\* Only the first entry opens a conversation: gaps are not looked at.
shouldStartNew_FirstOnly(currentConversation, chatHistory, i) ==
  currentConversation = NoConversation

\* !currentConversation || (prevEntry && entry.chat_rank !== prevEntry.chat_rank + 1)
shouldStartNew(currentConversation, chatHistory, i) ==
  \/ currentConversation = NoConversation
  \/ (i > 1 /\ chatHistory[i].chat_rank # chatHistory[i - 1].chat_rank + 1)

RECURSIVE segmentLoop(_, _, _, _)
\* The for loop over chatHistory and the push of the last conversation.
segmentLoop(chatHistory, i, conversations, currentConversation) ==
  LET pushed == IF currentConversation # NoConversation
                   /\ Len(currentConversation.entries) > 0
                THEN Append(conversations, createConversationFromEntries(currentConversation))
                ELSE conversations
  IN IF i > Len(chatHistory) THEN pushed
     ELSE LET entry == chatHistory[i]
          IN IF shouldStartNew(currentConversation, chatHistory, i)
             THEN segmentLoop(chatHistory, i + 1, pushed,
                              [startRank |-> entry.chat_rank,
                               entries |-> <<entry>>,
                               sessionId |-> "conv_" \o Dec(entry.chat_rank)])
             ELSE segmentLoop(chatHistory, i + 1, conversations,
                              [currentConversation EXCEPT !.entries = Append(@, entry)])

\* The select cut off after two rows (a row limit on the query).
fetchConversations_Limited(table, u) ==
  LET all == OrderByRank(RowsOf(table, u))
      chatHistory == SubSeq(all, 1, IF Len(all) < 2 THEN Len(all) ELSE 2)
  IN IF Len(chatHistory) = 0 THEN <<>>
     ELSE Reverse(segmentLoop(chatHistory, 1, <<>>, NoConversation))

\* The list returned oldest first.
fetchConversations_NoReverse(table, u) ==
  LET chatHistory == OrderByRank(RowsOf(table, u))
  IN IF Len(chatHistory) = 0 THEN <<>>
     ELSE segmentLoop(chatHistory, 1, <<>>, NoConversation)

fetchConversations(table, u) ==
  LET chatHistory == OrderByRank(RowsOf(table, u))
  IN IF Len(chatHistory) = 0 THEN <<>>
     ELSE Reverse(segmentLoop(chatHistory, 1, <<>>, NoConversation))

----------------------------------------------------------------------------
(* Deletion *)

RECURSIVE findEndRank(_, _, _)
\* The loop "Find continuous range from startRank" over the selected ranks.
findEndRank(entries, i, endRank) ==
  IF i > Len(entries) THEN endRank
  ELSE IF entries[i] = endRank
       THEN IF i + 1 <= Len(entries) /\ entries[i + 1] = endRank + 1
            THEN findEndRank(entries, i + 1, endRank + 1)
            ELSE endRank
       ELSE findEndRank(entries, i + 1, endRank)

\* select chat_rank ... gte(chat_rank, startRank) order ascending: the query
\* names no user.
selectFromRank(table, startRank) ==
  LET rows == OrderByRank({r \in table : r.chat_rank >= startRank})
  IN [i \in 1..Len(rows) |-> rows[i].chat_rank]

\* delete ... gte(chat_rank, startRank) lte(chat_rank, endRank): the statement
\* names no user.
deleteRange(table, startRank, endRank) ==
  {r \in table : ~(r.chat_rank >= startRank /\ r.chat_rank <= endRank)}

----------------------------------------------------------------------------
(* Calls *)

\* Another client's pending deleteConversation has read the table before this
\* write.
Touch(c) ==
  [d \in Clients |->
     IF d = c THEN IdleLoc
     ELSE IF pc[d] = "delete_commit" THEN [loc[d] EXCEPT !.dirty = TRUE]
     ELSE loc[d]]

\* createChatEntry calls that have not issued their insert yet.
PendingInserts == Cardinality({c \in Clients : pc[c] = "create_insert"})

\* createChatEntry up to the insert request, called for a signed-in user:
\* reads the maximum rank and starts a session when none is active.
CreateRead(c) ==
  /\ pc[c] = "idle"
  /\ userId[c] # ""
  /\ now + PendingInserts < MaxClock
  /\ \E rnd \in RandomSuffixes : \E userRequest \in Requests : \E aiResponse \in Responses :
       LET nextRank == nextRankOf(chat_history, userId[c])
       IN /\ loc' = [loc EXCEPT ![c] =
                       [IdleLoc EXCEPT !.rank = nextRank,
                                       !.maxSeen = Max(RanksOf(chat_history, userId[c]) \cup {0}),
                                       !.userRequest = userRequest,
                                       !.aiResponse = aiResponse]]
          /\ IF falsy(currentSessionId[c])
             THEN /\ currentSessionId' = [currentSessionId EXCEPT ![c] = newSessionId(rnd)]
                  /\ currentSessionStartRank' =
                       [currentSessionStartRank EXCEPT ![c] = nextRank]
                  /\ sessionFresh' = [sessionFresh EXCEPT ![c] = TRUE]
             ELSE UNCHANGED <<currentSessionId, currentSessionStartRank, sessionFresh>>
  /\ pc' = [pc EXCEPT ![c] = "create_insert"]
  /\ lastOp' = NoOp
  /\ fetched' = <<>>
  /\ UNCHANGED <<gemini, send, users, userId, chat_history, now, created, maxAssigned, anyDelete>>

\* The row with an id that puts a separator before the rank.
NewRow_Separated(c) ==
  [chat_id |-> userId[c] \o "_" \o Dec(loc[c].rank), user_id |-> userId[c],
   user_request |-> loc[c].userRequest, ai_response |-> loc[c].aiResponse,
   chat_rank |-> loc[c].rank, created_at |-> now]

\* The row createChatEntry asks the table to insert.
NewRow(c) ==
  [chat_id |-> userId[c] \o Dec(loc[c].rank), user_id |-> userId[c],
   user_request |-> loc[c].userRequest, ai_response |-> loc[c].aiResponse,
   chat_rank |-> loc[c].rank, created_at |-> now]

\* createChatEntry from the insert request to its return.
CreateInsert(c) ==
  /\ pc[c] = "create_insert"
  /\ LET row == NewRow(c)
         inserted == fk_user(row) /\ InsertAllowed(row, chat_history)
     IN /\ chat_history' = IF inserted THEN chat_history \cup {row} ELSE chat_history
        /\ lastOp' = [op |-> "create", user |-> userId[c], rank |-> row.chat_rank,
                      ok |-> inserted, chatId |-> IF inserted THEN row.chat_id ELSE NULL,
                      storage |-> "ok", threw |-> FALSE]
        /\ created' = IF inserted THEN [created EXCEPT ![userId[c]] = @ + 1] ELSE created
        /\ maxAssigned' = IF inserted /\ row.chat_rank > maxAssigned[userId[c]]
                          THEN [maxAssigned EXCEPT ![userId[c]] = row.chat_rank]
                          ELSE maxAssigned
        /\ loc' = IF inserted THEN Touch(c) ELSE [loc EXCEPT ![c] = IdleLoc]
  /\ now' = now + 1
  /\ pc' = [pc EXCEPT ![c] = "idle"]
  /\ fetched' = <<>>
  /\ sessionFresh' = IF chat_history' # chat_history
                      THEN [sessionFresh EXCEPT ![c] = FALSE] ELSE sessionFresh
  /\ UNCHANGED <<gemini, send, users, userId, currentSessionId, currentSessionStartRank, anyDelete>>

\* fetchConversations for a signed-in user: one select, then the grouping.
FetchConversations(c) ==
  /\ pc[c] = "idle"
  /\ userId[c] # ""
  /\ fetched' = fetchConversations(chat_history, userId[c])
  /\ lastOp' = [NoOp EXCEPT !.op = "fetch", !.user = userId[c], !.ok = TRUE]
  /\ UNCHANGED <<gemini, send, users, userId, chat_history, now, pc, loc, currentSessionId,
                 currentSessionStartRank, created, maxAssigned, anyDelete, sessionFresh>>

\* The conversation ids a client can pass.
ConversationIds == {"conv_" \o Dec(r) : r \in 1..MaxClock}

\* deleteConversation up to the delete request: parses the id, selects the
\* ranks from startRank on and finds endRank.
DeleteRead(c, conversationId) ==
  /\ pc[c] = "idle"
  /\ LET rankStr == replace(replace(conversationId, "conv_"), "session_")
         startRank == parseInt(rankStr)
         entries == IF startRank.nan THEN <<>> ELSE selectFromRank(chat_history, startRank.val)
     IN IF startRank.nan \/ Len(entries) = 0
        THEN /\ lastOp' = [NoOp EXCEPT !.op = "delete", !.user = userId[c],
                                       !.rank = IF startRank.nan THEN 0 ELSE startRank.val]
             /\ UNCHANGED <<pc, loc>>
        ELSE /\ pc' = [pc EXCEPT ![c] = "delete_commit"]
             /\ loc' = [loc EXCEPT ![c] =
                          [IdleLoc EXCEPT !.rank = startRank.val,
                                          !.endRank = findEndRank(entries, 1, startRank.val)]]
             /\ lastOp' = NoOp
  /\ fetched' = <<>>
  /\ UNCHANGED <<gemini, send, users, userId, chat_history, now, currentSessionId,
                 currentSessionStartRank, created, maxAssigned, anyDelete, sessionFresh>>

\* deleteConversation from the answer of the delete to its return.
DeleteCommit(c) ==
  /\ pc[c] = "delete_commit"
  /\ chat_history' = deleteRange(chat_history, loc[c].rank, loc[c].endRank)
  /\ lastOp' = [NoOp EXCEPT !.op = "delete", !.user = userId[c],
                            !.rank = loc[c].rank, !.ok = TRUE]
  /\ fetched' = <<>>
  /\ anyDelete' = TRUE
  /\ loc' = IF chat_history' # chat_history THEN Touch(c) ELSE [loc EXCEPT ![c] = IdleLoc]
  /\ pc' = [pc EXCEPT ![c] = "idle"]
  /\ UNCHANGED <<gemini, send, users, userId, now, currentSessionId, currentSessionStartRank,
                 created, maxAssigned, sessionFresh>>

Next ==
  \/ \E c \in Clients : CreateRead(c)
  \/ \E c \in Clients : CreateInsert(c)
  \/ \E c \in Clients : FetchConversations(c)
  \/ \E c \in Clients : \E id \in ConversationIds : DeleteRead(c, id)
  \/ \E c \in Clients : DeleteCommit(c)

Spec == Init /\ [][Next]_vars

TypeOK ==
  /\ now \in 0..MaxClock
  /\ \A r \in chat_history : r.chat_rank \in 1..MaxClock

----------------------------------------------------------------------------
(* Properties of the append and delete calls *)

\* The maximal run of consecutive ranks of the set ranks that starts at r.
RunFrom(ranks, r) == {k \in ranks : k >= r /\ \A j \in r..k : j \in ranks}

\* Client c's deleteConversation returns from its delete request in this step.
\* loc[c].dirty tells whether another call has written to the table since the
\* call selected the ranks.
DeleteReturns(c) == pc[c] = "delete_commit" /\ pc'[c] = "idle"

\* C1: a successful deleteConversation('conv_' + r), r a rank of the caller's
\* log, removes from that log exactly the rows of the maximal run of
\* consecutive ranks starting at r; every other row of the log stays as it is.
C1_DeleteBoundary ==
  [][\A c \in Clients :
       (DeleteReturns(c) /\ ~loc[c].dirty
          /\ loc[c].rank \in RanksOf(chat_history, userId[c]))
       => RowsOf(chat_history', userId[c]) =
            {r \in RowsOf(chat_history, userId[c]) :
               r.chat_rank \notin RunFrom(RanksOf(chat_history, userId[c]), loc[c].rank)}]_vars

\* C2: a call issued for one user changes no row of another user; in
\* particular deleteConversation leaves every row of the other users stored.
C2_CrossUserIsolation ==
  [][\A u \in Users :
       RowsOf(chat_history', u) # RowsOf(chat_history, u)
       => \E c \in Clients : pc'[c] # pc[c] /\ userId[c] = u]_vars

\* C3: no two stored rows of one user have the same rank, and no two stored
\* rows have the same chat_id, whatever the interleaving of the appends.
C3_RankUniqueness ==
  \A r1 \in chat_history : \A r2 \in chat_history :
    r1 # r2 => /\ r1.chat_id # r2.chat_id
               /\ ~(r1.user_id = r2.user_id /\ r1.chat_rank = r2.chat_rank)

\* Two appends of one user computed the same rank; the table holds the first
\* and has just rejected the second.
C3_Witness ==
  /\ lastOp.op = "create" /\ ~lastOp.ok
  /\ \E r \in chat_history : r.user_id = lastOp.user /\ r.chat_rank = lastOp.rank

\* C4: an insert rejected with a duplicate key does not end createChatEntry:
\* the call reads the next rank again and retries, so the exchange is stored.
C4_CollisionRetry ==
  [][\A c \in Clients :
       (pc[c] = "create_insert" /\ ~InsertAllowed(NewRow(c), chat_history))
       => pc'[c] # "idle"]_vars

\* C5: as long as nothing has been deleted, after N successful createChatEntry
\* calls of a user the stored ranks of the user are exactly 1..N, and the call
\* that succeeded N-th returned the user id followed by N.
C5_RankMonotonicity ==
  ~anyDelete =>
    /\ \A u \in Users : RanksOf(chat_history, u) = 1..created[u]
    /\ (lastOp.op = "create" /\ lastOp.ok)
         => lastOp.chatId = lastOp.user \o Dec(created[lastOp.user])

\* A user's third append has just succeeded and nothing was deleted.
C5_Witness ==
  /\ ~anyDelete
  /\ lastOp.op = "create" /\ lastOp.ok /\ created[lastOp.user] >= 3

\* C6 as claimed: the rank of a newly stored row is greater than every rank
\* the user was ever given, deleted rows included.
C6_NeverReused ==
  [][\A row \in chat_history' \ chat_history :
       row.chat_rank > maxAssigned[row.user_id]]_vars

\* C6 as amended: the rank of a newly stored row is one more than the highest
\* rank stored for the user when the call read the maximum (0 if none), hence
\* greater than every rank stored for the user at that moment.
C6_AboveRanksRead ==
  [][\A c \in Clients : \A row \in chat_history' \ chat_history :
       pc[c] = "create_insert" /\ pc'[c] = "idle"
       => row.chat_rank = loc[c].maxSeen + 1]_vars

\* A row has just been stored under a rank below one the user had before.
C6_Witness ==
  /\ lastOp.op = "create" /\ lastOp.ok
  /\ lastOp.rank < maxAssigned[lastOp.user]

----------------------------------------------------------------------------
(* Segmentation of arbitrary logs *)

RECURSIVE Padded(_, _)
\* The text s lengthened to n characters.
Padded(s, n) == IF Len(s) >= n THEN s ELSE Padded(s \o ".", n)

\* The request stored under rank k: short ones, and ones longer than a title
\* and longer than a preview.
RequestOf(k) ==
  LET q == "question " \o Dec(k)
  IN IF k % 3 = 2 THEN Padded(q, TitleLength + 10)
     ELSE IF k % 3 = 0 THEN Padded(q, PreviewLength + 10)
     ELSE q

\* The rows of user u with the ranks S.
LogOf(u, S) ==
  {[chat_id |-> u \o Dec(k), user_id |-> u, user_request |-> RequestOf(k),
    ai_response |-> "answer " \o Dec(k), chat_rank |-> k, created_at |-> k] : k \in S}

\* Any set of ranks can be what a user's log holds (pending inserts of several
\* tabs landing after a delete); the other user's log holds ranks among 1, 2.
SegInit ==
  /\ userId = [c \in Clients |-> IF c = "c1" THEN "u" ELSE "u1"]
  /\ \E S \in SUBSET (1..MaxRank) : \E T \in SUBSET (1..2) :
       chat_history = LogOf("u", S) \cup LogOf("u1", T)
  /\ now = MaxRank + 1
  /\ pc = [c \in Clients |-> "idle"]
  /\ loc = [c \in Clients |-> IdleLoc]
  /\ currentSessionId = [c \in Clients |-> NULL]
  /\ currentSessionStartRank = [c \in Clients |-> 0]
  /\ lastOp = NoOp
  /\ fetched = <<>>
  /\ created = [u \in Users |-> MaxRank]
  /\ maxAssigned = [u \in Users |-> MaxRank]
  /\ anyDelete = TRUE
  /\ sessionFresh = [c \in Clients |-> FALSE]
  /\ send = [c \in Clients |-> NoSend]
  /\ gemini = [c \in Clients |-> NewService]
  /\ users = Users

SegNext == \E c \in Clients : FetchConversations(c)

SegSpec == SegInit /\ [][SegNext]_vars

\* fetchConversations has just returned.
Fetched == lastOp.op = "fetch"

\* The ranks of the log the list was computed from.
FetchedRanks == RanksOf(chat_history, lastOp.user)

\* C7: in every returned conversation the i-th entry (from 0) has rank
\* startRank + i, startRank being the rank of the first entry.
C7_Contiguity ==
  Fetched =>
    \A n \in 1..Len(fetched) :
      /\ Len(fetched[n].entries) >= 1
      /\ fetched[n].startRank = fetched[n].entries[1].chat_rank
      /\ \A i \in 1..Len(fetched[n].entries) :
           fetched[n].entries[i].chat_rank = fetched[n].startRank + (i - 1)

\* A log with gaps was segmented into several conversations, one of three entries.
C7_Witness ==
  /\ Fetched /\ Len(fetched) >= 2
  /\ \E n \in 1..Len(fetched) : Len(fetched[n].entries) >= 3

\* The places (conversation, position) of the returned list.
Places == {<<n, i>> \in (1..Len(fetched)) \X (1..MaxRank) : i <= Len(fetched[n].entries)}

\* C8: every stored entry of the user is at exactly one place of the returned
\* list, and every entry of the list is a stored entry of the user.
C8_Coverage ==
  Fetched =>
    /\ \A row \in RowsOf(chat_history, lastOp.user) :
         Cardinality({p \in Places : fetched[p[1]].entries[p[2]] = row}) = 1
    /\ \A p \in Places : fetched[p[1]].entries[p[2]] \in RowsOf(chat_history, lastOp.user)

\* A log of at least four entries with a gap was segmented while the other
\* user has rows too.
C8_Witness ==
  /\ Fetched /\ Len(fetched) >= 2
  /\ Cardinality(RowsOf(chat_history, lastOp.user)) >= 4
  /\ \E r \in chat_history : r.user_id # lastOp.user

\* The ranks at which a run of consecutive ranks begins.
RunStarts(ranks) == {k \in ranks : k - 1 \notin ranks}

C10_NewestFirst ==
  Fetched =>
    \A n \in 1..Len(fetched) : \A m \in 1..Len(fetched) :
      n < m => fetched[n].startRank > fetched[m].startRank

\* A list of three conversations has been returned.
C10_Witness == Fetched /\ Len(fetched) >= 3

----------------------------------------------------------------------------
(* Sessions of one tab *)

\* The tab whose sessions are followed; the other tab stays on the sign-in page.
SessClients == {"c1"}

\* startNewSession(): a new id; the start rank is not assigned.
StartNewSession(c) ==
  /\ \E rnd \in RandomSuffixes :
       /\ currentSessionId' = [currentSessionId EXCEPT ![c] = newSessionId(rnd)]
       /\ lastOp' = [NoOp EXCEPT !.op = "startNewSession", !.user = userId[c],
                                 !.ok = TRUE, !.chatId = newSessionId(rnd)]
  /\ sessionFresh' = [sessionFresh EXCEPT ![c] = TRUE]
  /\ UNCHANGED <<gemini, send, users, userId, chat_history, now, pc, loc, fetched,
                 currentSessionStartRank, created, maxAssigned, anyDelete>>

\* setCurrentSession that stores the id and keeps the start rank it had.
SetCurrentSession_IdOnly(c, sessionId, startRank) ==
  /\ currentSessionId' = [currentSessionId EXCEPT ![c] = sessionId]
  /\ sessionFresh' = [sessionFresh EXCEPT ![c] = FALSE]
  /\ lastOp' = [NoOp EXCEPT !.op = "setCurrentSession", !.user = userId[c],
                            !.rank = startRank, !.ok = TRUE]
  /\ UNCHANGED <<gemini, send, users, userId, chat_history, now, pc, loc, fetched, created,
                 maxAssigned, anyDelete, currentSessionStartRank>>

\* setCurrentSession(sessionId, startRank)
SetCurrentSession(c, sessionId, startRank) ==
  /\ currentSessionId' = [currentSessionId EXCEPT ![c] = sessionId]
  /\ currentSessionStartRank' = [currentSessionStartRank EXCEPT ![c] = startRank]
  /\ sessionFresh' = [sessionFresh EXCEPT ![c] = FALSE]
  /\ lastOp' = [NoOp EXCEPT !.op = "setCurrentSession", !.user = userId[c],
                            !.rank = startRank, !.ok = TRUE]
  /\ UNCHANGED <<gemini, send, users, userId, chat_history, now, pc, loc, fetched, created,
                 maxAssigned, anyDelete>>

\* handleSelectConversation: the conversation picked from the sidebar carries
\* sessionId 'conv_' + startRank.
SelectConversation(c) ==
  /\ userId[c] # ""
  /\ \E r \in 1..MaxClock : SetCurrentSession(c, "conv_" \o Dec(r), r)

\* clearCurrentSession()
ClearCurrentSession(c) ==
  /\ currentSessionId' = [currentSessionId EXCEPT ![c] = NULL]
  /\ currentSessionStartRank' = [currentSessionStartRank EXCEPT ![c] = 0]
  /\ sessionFresh' = [sessionFresh EXCEPT ![c] = FALSE]
  /\ lastOp' = [NoOp EXCEPT !.op = "clearCurrentSession", !.user = userId[c], !.ok = TRUE]
  /\ UNCHANGED <<gemini, send, users, userId, chat_history, now, pc, loc, fetched, created,
                 maxAssigned, anyDelete>>

\* handleNewConversation: the "new conversation" button.
NewConversation(c) ==
  /\ userId[c] # ""
  /\ StartNewSession(c)

\* The rows of user u with the ranks S, stored before the page was loaded.
StoredLog(u, S) == {[r EXCEPT !.created_at = 0] : r \in LogOf(u, S)}

SessInit ==
  /\ userId = [c \in Clients |-> IF c \in SessClients THEN "u" ELSE ""]
  /\ \E S \in SUBSET (1..MaxClock) : chat_history = StoredLog("u", S)
  /\ now = 0
  /\ pc = [c \in Clients |-> "idle"]
  /\ loc = [c \in Clients |-> IdleLoc]
  /\ currentSessionId = [c \in Clients |-> NULL]
  /\ currentSessionStartRank = [c \in Clients |-> 0]
  /\ lastOp = NoOp
  /\ fetched = <<>>
  /\ created = [u \in Users |-> 0]
  /\ maxAssigned = [u \in Users |-> MaxClock]
  /\ anyDelete = TRUE
  /\ sessionFresh = [c \in Clients |-> FALSE]
  /\ send = [c \in Clients |-> NoSend]
  /\ gemini = [c \in Clients |-> NewService]
  /\ users = Users

SessNext ==
  \/ \E c \in SessClients : CreateRead(c)
  \/ \E c \in SessClients : CreateInsert(c)
  \/ \E c \in SessClients : FetchConversations(c)
  \/ \E c \in SessClients : NewConversation(c)
  \/ \E c \in SessClients : SelectConversation(c)

SessSpec == SessInit /\ [][SessNext]_vars

\* Client c's createChatEntry returns from a successful insert in this step.
AppendReturns(c) ==
  pc[c] = "create_insert" /\ pc'[c] = "idle" /\ chat_history' # chat_history

\* C11: the first exchange appended after a session was started anew (by
\* startNewSession or by createChatEntry itself) is, in the list
\* fetchConversations computes next, the first entry of a conversation of its
\* own: that conversation's startRank is the entry's rank and the session's
\* start rank.
C11_NewSessionNewConversation ==
  [][\A c \in Clients :
       (AppendReturns(c) /\ sessionFresh[c])
       => LET row == NewRow(c)
              conversations == fetchConversations(chat_history', userId[c])
          IN \E n \in 1..Len(conversations) :
               /\ conversations[n].entries[1] = row
               /\ conversations[n].startRank = row.chat_rank
               /\ conversations[n].startRank = currentSessionStartRank[c]]_vars

\* C12: an exchange appended while the session is attached, by
\* setCurrentSession(id, s), to the stored conversation with startRank s is,
\* in the list fetchConversations computes next, an entry of the conversation
\* whose startRank is s, whichever stored conversation was selected.
C12_AppendToAttached ==
  [][\A c \in Clients :
       LET s == currentSessionStartRank[c]
       IN (/\ AppendReturns(c)
           /\ currentSessionId[c] = "conv_" \o Dec(s)
           /\ s \in RunStarts(RanksOf(chat_history, userId[c])))
          => LET conversations == fetchConversations(chat_history', userId[c])
             IN \E n \in 1..Len(conversations) :
                  /\ conversations[n].startRank = s
                  /\ \E i \in 1..Len(conversations[n].entries) :
                       conversations[n].entries[i] = NewRow(c)]_vars

----------------------------------------------------------------------------
(* Appends when the read of the maximum rank fails *)

\* createChatEntry when the select of the maximum rank answers with an error:
\* the call returns null before it computes a rank.
CreateReadFails(c) ==
  /\ pc[c] = "idle"
  /\ userId[c] # ""
  /\ lastOp' = [NoOp EXCEPT !.op = "create", !.user = userId[c], !.storage = "error"]
  /\ fetched' = <<>>
  /\ UNCHANGED <<gemini, send, users, userId, chat_history, now, pc, loc, currentSessionId,
                 currentSessionStartRank, created, maxAssigned, anyDelete, sessionFresh>>

\* A user message followed by the assistant's message.
Exchange(q, a) == <<[role |-> "user", content |-> q], [role |-> "assistant", content |-> a]>>

\* getDefaultMessages: the introduction shown in an empty conversation.
DefaultMessages == Exchange("Who are you?", "I am Brother's AI, your assistant.")

\* The message lists saveCurrentSession is called with.
MessageLists ==
  {<<>>,
   DefaultMessages,
   Exchange("Hello!", "Hi, how can I help?"),
   DefaultMessages \o Exchange("Hello!", "Hi, how can I help?"),
   Exchange("Hello!", "Hi, how can I help?") \o Exchange("Thanks", "You are welcome."),
   Tail(Exchange("Hello!", "Hi, how can I help?")) \o Exchange("Thanks", "You are welcome.")}

\* messages.filter(m => !(m.content === 'Who are you?' ||
\*                        m.content.includes('I am Brother\'s AI')))
nonDefaultMessages(messages) ==
  SelectSeq(messages, LAMBDA m : ~(m.content = "Who are you?"
                                    \/ includes(m.content, "I am Brother's AI")))

RECURSIVE nextPair(_, _)
\* The loop "for (i...; i += 2)" up to the next pair it inserts: the position
\* of that pair's user message, 0 when the loop ends.
nextPair(messages, i) ==
  IF i > Len(messages) THEN 0
  ELSE IF i + 1 <= Len(messages) /\ messages[i].role = "user"
          /\ messages[i + 1].role = "assistant"
       THEN i
       ELSE nextPair(messages, i + 2)

RECURSIVE pairsFrom(_, _)
\* The number of pairs the loop inserts from position i on.
pairsFrom(messages, i) ==
  IF nextPair(messages, i) = 0 THEN 0
  ELSE 1 + pairsFrom(messages, nextPair(messages, i) + 2)

\* saveCurrentSession up to its first insert request; readFails tells whether
\* the select of the maximum rank answers with an error. The error is not
\* looked at: maxRankData is null and the rank (null || 0) + 1.
SaveRead(c, messages, readFails) ==
  /\ pc[c] = "idle"
  /\ userId[c] # ""
  /\ now + PendingInserts + pairsFrom(nonDefaultMessages(messages), 1) <= MaxClock
  /\ LET nonDefault == nonDefaultMessages(messages)
         nextRank == IF readFails THEN 0 + 1 ELSE nextRankOf(chat_history, userId[c])
     IN IF Len(messages) = 0 \/ Len(nonDefault) = 0 \/ nextPair(nonDefault, 1) = 0
        THEN /\ lastOp' = [NoOp EXCEPT !.op = "save", !.user = userId[c], !.ok = TRUE]
             /\ UNCHANGED <<pc, loc>>
        ELSE /\ pc' = [pc EXCEPT ![c] = "save_insert"]
             /\ loc' = [loc EXCEPT ![c] =
                          [IdleLoc EXCEPT !.rank = nextRank,
                                          !.messages = nonDefault,
                                          !.i = nextPair(nonDefault, 1),
                                          !.readFailed = readFails]]
             /\ lastOp' = NoOp
  /\ fetched' = <<>>
  /\ UNCHANGED <<gemini, send, users, userId, chat_history, now, currentSessionId,
                 currentSessionStartRank, created, maxAssigned, anyDelete, sessionFresh>>

\* The row saveCurrentSession asks the table to insert for the pair at hand.
SaveRow(c) ==
  [chat_id |-> userId[c] \o Dec(loc[c].rank), user_id |-> userId[c],
   user_request |-> loc[c].messages[loc[c].i].content,
   ai_response |-> loc[c].messages[loc[c].i + 1].content,
   chat_rank |-> loc[c].rank, created_at |-> now]

\* saveCurrentSession from one insert request to the next, or to its return.
SaveInsert(c) ==
  /\ pc[c] = "save_insert"
  /\ LET row == SaveRow(c)
         inserted == fk_user(row) /\ InsertAllowed(row, chat_history)
         j == nextPair(loc[c].messages, loc[c].i + 2)
     IN /\ chat_history' = IF inserted THEN chat_history \cup {row} ELSE chat_history
        /\ maxAssigned' = IF inserted /\ row.chat_rank > maxAssigned[userId[c]]
                          THEN [maxAssigned EXCEPT ![userId[c]] = row.chat_rank]
                          ELSE maxAssigned
        /\ IF inserted /\ j # 0
           THEN /\ loc' = [Touch(c) EXCEPT ![c] = [loc[c] EXCEPT !.rank = @ + 1, !.i = j]]
                /\ lastOp' = NoOp
                /\ UNCHANGED pc
           ELSE /\ loc' = IF inserted THEN Touch(c) ELSE [loc EXCEPT ![c] = IdleLoc]
                /\ lastOp' = [NoOp EXCEPT !.op = "save", !.user = userId[c],
                                          !.rank = row.chat_rank, !.ok = inserted]
                /\ pc' = [pc EXCEPT ![c] = "idle"]
  /\ now' = now + 1
  /\ fetched' = <<>>
  /\ UNCHANGED <<gemini, send, users, userId, currentSessionId, currentSessionStartRank, created,
                 anyDelete, sessionFresh>>

ErrNext ==
  \/ \E c \in SessClients : CreateRead(c)
  \/ \E c \in SessClients : CreateReadFails(c)
  \/ \E c \in SessClients : CreateInsert(c)
  \/ \E c \in SessClients : \E messages \in MessageLists : \E readFails \in BOOLEAN :
       SaveRead(c, messages, readFails)
  \/ \E c \in SessClients : SaveInsert(c)

ErrSpec == SessInit /\ [][ErrNext]_vars

\* C13: when the read of the maximum rank fails, the append fails and inserts
\* no row: createChatEntry returns null with the table as it was, and a
\* saveCurrentSession whose read failed issues no insert (in particular none
\* with rank 1).
C13_ReadFailurePropagates ==
  [][/\ (lastOp'.op = "create" /\ lastOp'.rank = 0)
          => (chat_history' = chat_history /\ lastOp'.chatId = NULL /\ ~lastOp'.ok)
     /\ \A c \in Clients :
          (pc[c] = "save_insert" /\ loc[c].readFailed /\ loc'[c] # loc[c])
          => chat_history' = chat_history]_vars

----------------------------------------------------------------------------
(* Conversation tokens *)

RECURSIVE takeRun(_, _, _)
\* The loop "Find continuous entries": the entries from position i on whose
\* ranks are expectedRank, expectedRank + 1, ...; it stops at the first other
\* rank.
takeRun(entries, i, expectedRank) ==
  IF i > Len(entries) \/ entries[i].chat_rank # expectedRank THEN <<>>
  ELSE <<entries[i]>> \o takeRun(entries, i + 1, expectedRank + 1)

\* getConversationMessages: the select names no user.
getConversationMessages(table, conversationId) ==
  LET rankStr == replace(replace(conversationId, "conv_"), "session_")
      startRank == parseInt(rankStr)
  IN IF startRank.nan THEN <<>>
     ELSE LET entries == OrderByRank({r \in table : r.chat_rank >= startRank.val})
          IN IF Len(entries) = 0 THEN <<>>
             ELSE messagesOf(takeRun(entries, 1, startRank.val))

\* getConversationMessages called by client c; lastOp.rank is the rank put in
\* the select (0 when no select is issued).
GetConversationMessages(c, conversationId) ==
  /\ pc[c] = "idle"
  /\ userId[c] # ""
  /\ fetched' = getConversationMessages(chat_history, conversationId)
  /\ LET startRank == parseInt(replace(replace(conversationId, "conv_"), "session_"))
     IN lastOp' = [NoOp EXCEPT !.op = "messages", !.user = userId[c], !.ok = TRUE,
                               !.rank = IF startRank.nan THEN 0 ELSE startRank.val]
  /\ UNCHANGED <<gemini, send, users, userId, chat_history, now, pc, loc, currentSessionId,
                 currentSessionStartRank, created, maxAssigned, anyDelete, sessionFresh>>

\* Tokens that are not 'conv_' followed by a number: a number followed by
\* letters, the ids of sessions, and tokens without a digit.
MalformedTokens ==
  {"conv_1abc", "conv_2x", "session_1_k3x", "session_2_k3x", "conv_abc", "abc", ""}

\* The tokens a caller passes.
Tokens == ConversationIds \cup MalformedTokens

TokenNext ==
  \/ \E c \in SessClients : \E id \in Tokens : DeleteRead(c, id)
  \/ \E c \in SessClients : DeleteCommit(c)
  \/ \E c \in SessClients : \E id \in Tokens : GetConversationMessages(c, id)

TokenSpec == SegInit /\ [][TokenNext]_vars

\* C14: deleteConversation and getConversationMessages called with a token
\* that is not an optional 'conv_' followed by decimal digits issue no storage
\* request: deleteConversation returns false and getConversationMessages the
\* empty list.
C14_MalformedToken ==
  [][\A c \in Clients : \A id \in MalformedTokens :
       /\ DeleteRead(c, id)
            => (pc'[c] = "idle" /\ lastOp'.op = "delete" /\ ~lastOp'.ok /\ lastOp'.rank = 0)
       /\ GetConversationMessages(c, id)
            => (fetched' = <<>> /\ lastOp'.rank = 0)]_vars

----------------------------------------------------------------------------
(* The re-rank pass of CLEANUP_DUPLICATE_CHATS.sql, STEP 4 *)

\* Bound on the rows of a user the pass is run on.
MaxRows == 3

\* The columns of the relations the UPDATE has in scope: its target and the
\* temporary table chat_history_reranked (alias chr).
ColumnsOf(relation) ==
  IF relation = "chat_history"
  THEN {"chat_id", "user_id", "user_request", "ai_response", "chat_rank",
        "created_at", "updated_at"}
  ELSE {"chat_id", "user_id", "user_request", "ai_response", "new_rank",
        "created_at", "updated_at"}

\* A column name written without a table resolves when exactly one relation
\* in scope has a column of that name; otherwise the statement is rejected
\* (column reference is ambiguous).
Resolves(column) ==
  Cardinality({relation \in {"chat_history", "chr"} : column \in ColumnsOf(relation)}) = 1

\* ROW_NUMBER() OVER (PARTITION BY user_id ORDER BY created_at): the
\* numberings 1..N of each user's rows in ascending created_at; rows of equal
\* created_at are numbered in an order the database chooses.
RowNumbers(table) ==
  {f \in [table -> 1..Cardinality(table)] :
     \A r1 \in table :
       /\ f[r1] <= Cardinality(RowsOf(table, r1.user_id))
       /\ \A r2 \in RowsOf(table, r1.user_id) :
            /\ (r1 # r2 => f[r1] # f[r2])
            /\ (r1.created_at < r2.created_at => f[r1] < f[r2])}

\* The row as the UPDATE rewrites it.
Reranked(row, new_rank) ==
  [row EXCEPT !.chat_rank = new_rank, !.chat_id = row.user_id \o Dec(new_rank)]

RECURSIVE updateOutcomes(_, _, _)
\* The tables the UPDATE can end with, rows being rewritten one after the
\* other in an order the database chooses and the primary key and the unique
\* index being checked at every row; {} stands for a run that hit a
\* duplicate key, which aborts the statement.
updateOutcomes(table, pending, new_rank) ==
  IF pending = {} THEN {table}
  ELSE UNION {LET new == Reranked(row, new_rank[row])
              IN IF InsertAllowed(new, table \ {row})
                 THEN updateOutcomes((table \ {row}) \cup {new}, pending \ {row}, new_rank)
                 ELSE {{}} : row \in pending}

\* STEP 4 run while no call is pending: the temporary table, then the UPDATE.
\* lastOp.ok tells whether the UPDATE was executed.
Rerank ==
  /\ \A c \in Clients : pc[c] = "idle"
  /\ \E new_rank \in RowNumbers(chat_history) :
       IF ~Resolves("user_id")
       THEN /\ lastOp' = [NoOp EXCEPT !.op = "rerank"]
            /\ UNCHANGED chat_history
       ELSE \E outcome \in updateOutcomes(chat_history, chat_history, new_rank) :
              IF outcome = {} /\ chat_history # {}
              THEN /\ lastOp' = [NoOp EXCEPT !.op = "rerank"]
                   /\ UNCHANGED chat_history
              ELSE /\ lastOp' = [NoOp EXCEPT !.op = "rerank", !.ok = TRUE]
                   /\ chat_history' = outcome
  /\ fetched' = <<>>
  /\ UNCHANGED <<gemini, send, users, userId, now, pc, loc, currentSessionId,
                 currentSessionStartRank, created, maxAssigned, anyDelete, sessionFresh>>

\* Logs of at most MaxRows rows of user "u" with ranks up to MaxRank, stored
\* at any times (the clients' clocks stamp created_at), and at most one row
\* of user "u1".
RerankInit ==
  /\ userId = [c \in Clients |-> IF c = "c1" THEN "u" ELSE "u1"]
  /\ \E S \in SUBSET (1..MaxRank) : \E T \in SUBSET {2} :
       /\ Cardinality(S) <= MaxRows
       /\ \E at \in [S -> 1..MaxRows] :
            chat_history = {[r EXCEPT !.created_at = at[r.chat_rank]] : r \in LogOf("u", S)}
                             \cup LogOf("u1", T)
  /\ now = MaxRank + 1
  /\ pc = [c \in Clients |-> "idle"]
  /\ loc = [c \in Clients |-> IdleLoc]
  /\ currentSessionId = [c \in Clients |-> NULL]
  /\ currentSessionStartRank = [c \in Clients |-> 0]
  /\ lastOp = NoOp
  /\ fetched = <<>>
  /\ created = [u \in Users |-> MaxRank]
  /\ maxAssigned = [u \in Users |-> MaxRank]
  /\ anyDelete = TRUE
  /\ sessionFresh = [c \in Clients |-> FALSE]
  /\ send = [c \in Clients |-> NoSend]
  /\ gemini = [c \in Clients |-> NewService]
  /\ users = Users

RerankNext == Rerank

RerankSpec == RerankInit /\ [][RerankNext]_vars

\* C15: after a run of the re-rank pass the ranks of every user are 1..N in
\* ascending order of created_at, every chat_id is the user id followed by the
\* rank, texts and created_at are as before, and the next rank of the user is
\* N + 1; ranks 5, 6 become 1, 2 and the next rank is 3.
C15_RerankResult ==
  [][lastOp'.op = "rerank" =>
       \A u \in Users :
         LET before == RowsOf(chat_history, u)
             after == RowsOf(chat_history', u)
             N == Cardinality(before)
         IN /\ RanksOf(chat_history', u) = 1..N
            /\ Cardinality(after) = N
            /\ \A r1 \in after : \A r2 \in after :
                 r1.created_at < r2.created_at => r1.chat_rank < r2.chat_rank
            /\ \A r \in after : r.chat_id = r.user_id \o Dec(r.chat_rank)
            /\ \A r \in after : \E b \in before :
                 /\ b.user_request = r.user_request /\ b.ai_response = r.ai_response
                 /\ b.created_at = r.created_at
            /\ nextRankOf(chat_history', u) = N + 1]_vars

----------------------------------------------------------------------------
(* The conversation list at different times and in different sessions *)

\* The times at which the page is loaded: a minute, an hour, a day and a week
\* after the last stored entry.
LoadTimes ==
  {MaxRank + 1, MaxRank + MinutesPerHour, MaxRank + MinutesPerHour * HoursPerDay,
   MaxRank + MinutesPerHour * HoursPerDay * DaysPerWeek}

\* A minute passes.
Tick ==
  /\ \E t \in LoadTimes : t <= now /\ now < t + MaxClock
  /\ now' = now + 1
  /\ UNCHANGED <<gemini, send, users, userId, chat_history, pc, loc, currentSessionId,
                 currentSessionStartRank, lastOp, fetched, created, maxAssigned, anyDelete,
                 sessionFresh>>

\* Logs of at most MaxRows rows with ranks up to MaxRank, read in one tab.
ViewInit ==
  /\ userId = [c \in Clients |-> IF c \in SessClients THEN "u" ELSE ""]
  /\ \E S \in SUBSET (1..MaxRank) :
       Cardinality(S) <= MaxRows /\ chat_history = LogOf("u", S)
  /\ now \in LoadTimes
  /\ pc = [c \in Clients |-> "idle"]
  /\ loc = [c \in Clients |-> IdleLoc]
  /\ currentSessionId = [c \in Clients |-> NULL]
  /\ currentSessionStartRank = [c \in Clients |-> 0]
  /\ lastOp = NoOp
  /\ fetched = <<>>
  /\ created = [u \in Users |-> MaxRank]
  /\ maxAssigned = [u \in Users |-> MaxRank]
  /\ anyDelete = TRUE
  /\ sessionFresh = [c \in Clients |-> FALSE]
  /\ send = [c \in Clients |-> NoSend]
  /\ gemini = [c \in Clients |-> NewService]
  /\ users = Users

ViewNext ==
  \/ \E c \in SessClients : FetchConversations(c)
  \/ \E c \in SessClients : SelectConversation(c)
  \/ Tick

ViewSpec == ViewInit /\ [][ViewNext]_vars

\* The list with the age labels of the conversations left out.
WithoutAge(conversations) ==
  [n \in 1..Len(conversations) |-> [conversations[n] EXCEPT !.timestamp = ""]]

\* fetchConversations returns in this step, and the list an earlier call
\* returned for the same user from the same rows is still at hand.
FetchedAgain ==
  /\ lastOp'.op = "fetch"
  /\ fetched # <<>>
  /\ \A n \in 1..Len(fetched) : \A i \in 1..Len(fetched[n].entries) :
       fetched[n].entries[i] \in RowsOf(chat_history, lastOp'.user)
  /\ \A row \in RowsOf(chat_history, lastOp'.user) :
       \E n \in 1..Len(fetched) : \E i \in 1..Len(fetched[n].entries) :
         fetched[n].entries[i] = row

\* C17 as claimed: for a fixed stored log two calls of fetchConversations
\* return identical lists, timestamps included, whatever time has passed
\* between them and whatever the session is.
C17_IdempotentSegmentation ==
  [][FetchedAgain => fetched' = fetched]_vars

\* C17 as amended: the two lists are identical in ids, startRanks, titles,
\* previews and messages (message timestamps included); only the age label
\* of a conversation follows the time of the call.
C17_IdempotentButAge ==
  [][FetchedAgain => WithoutAge(fetched') = WithoutAge(fetched)]_vars

\* A list of two conversations has been returned some minutes after the page
\* was loaded, with the session attached to a conversation.
C17_Witness ==
  /\ Fetched /\ Len(fetched) >= 2
  /\ now \notin LoadTimes
  /\ \E c \in SessClients : currentSessionId[c] # NULL

\* C18: the messages of a returned conversation of k entries are 2k: for the
\* i-th entry e, in ascending rank order, the user message (id e.chat_id
\* followed by '_user', content e.user_request) and then the assistant message
\* (id e.chat_id followed by '_assistant', content e.ai_response).
C18_MessageExpansion ==
  Fetched =>
    \A n \in 1..Len(fetched) :
      LET entries == fetched[n].entries
          messages == fetched[n].messages
      IN /\ Len(messages) = 2 * Len(entries)
         /\ \A i \in 1..Len(entries) :
              /\ messages[2 * i - 1].id = entries[i].chat_id \o "_user"
              /\ messages[2 * i - 1].role = "user"
              /\ messages[2 * i - 1].content = entries[i].user_request
              /\ messages[2 * i].id = entries[i].chat_id \o "_assistant"
              /\ messages[2 * i].role = "assistant"
              /\ messages[2 * i].content = entries[i].ai_response
              /\ (i > 1 => entries[i - 1].chat_rank < entries[i].chat_rank)

\* A conversation of two entries and one of a single entry have been
\* returned.
C18_Witness ==
  /\ Fetched
  /\ \E n \in 1..Len(fetched) : Len(fetched[n].messages) = 4
  /\ \E n \in 1..Len(fetched) : Len(fetched[n].messages) = 2

----------------------------------------------------------------------------
(* Start of a session, logout and login *)

\* C19: startNewSession sets the current session id to a newly generated id,
\* returns that id and resets the session's start rank to 0, so that no start
\* rank of the conversation attached before survives. (That the new id
\* differs from the one before rests on the clock and on the random suffix;
\* it is not part of the formula.)
C19_StartNewSessionResets ==
  [][\A c \in Clients :
       StartNewSession(c)
       => /\ currentSessionId'[c] # NULL
          /\ lastOp'.chatId = currentSessionId'[c]
          /\ currentSessionStartRank'[c] = 0]_vars

\* handleLogout: the React state is reset; the session variables of the
\* data-access module are not touched.
Logout(c) ==
  /\ pc[c] = "idle"
  /\ userId[c] # ""
  /\ userId' = [userId EXCEPT ![c] = ""]
  /\ lastOp' = [NoOp EXCEPT !.op = "logout", !.user = userId[c], !.ok = TRUE]
  /\ fetched' = <<>>
  /\ UNCHANGED <<gemini, send, users, chat_history, now, pc, loc, currentSessionId,
                 currentSessionStartRank, created, maxAssigned, anyDelete, sessionFresh>>

\* handleAuthSuccess followed by initializeApp. initFails: an await before the
\* conversations are loaded throws and the catch branch leaves the session as
\* it is; fetchFails: fetchConversations answers [] after an error. Otherwise
\* the session is attached to the saved active conversation or to the most
\* recent one, and a new session is started when there is none.
Login(c, u, initFails, fetchFails) ==
  /\ pc[c] = "idle"
  /\ userId[c] = ""
  /\ userId' = [userId EXCEPT ![c] = u]
  /\ lastOp' = [NoOp EXCEPT !.op = "login", !.user = u, !.ok = ~initFails]
  /\ fetched' = <<>>
  /\ LET dbConversations == IF fetchFails THEN <<>> ELSE fetchConversations(chat_history, u)
     IN IF initFails
        THEN UNCHANGED <<currentSessionId, currentSessionStartRank, sessionFresh>>
        ELSE IF Len(dbConversations) > 0
        THEN \E n \in 1..Len(dbConversations) :
               /\ currentSessionId' =
                    [currentSessionId EXCEPT ![c] = dbConversations[n].sessionId]
               /\ currentSessionStartRank' =
                    [currentSessionStartRank EXCEPT ![c] = dbConversations[n].startRank]
               /\ sessionFresh' = [sessionFresh EXCEPT ![c] = FALSE]
        ELSE \E rnd \in RandomSuffixes :
               /\ currentSessionId' = [currentSessionId EXCEPT ![c] = newSessionId(rnd)]
               /\ sessionFresh' = [sessionFresh EXCEPT ![c] = TRUE]
               /\ UNCHANGED currentSessionStartRank
  /\ UNCHANGED <<gemini, send, users, chat_history, now, pc, loc, created, maxAssigned, anyDelete>>

AuthNext ==
  \/ \E c \in SessClients : CreateRead(c)
  \/ \E c \in SessClients : CreateInsert(c)
  \/ \E c \in SessClients : NewConversation(c)
  \/ \E c \in SessClients : SelectConversation(c)
  \/ \E c \in SessClients : Logout(c)
  \/ \E c \in SessClients : \E u \in Users : \E initFails \in BOOLEAN : \E fetchFails \in BOOLEAN :
       Login(c, u, initFails, fetchFails)

AuthSpec == SessInit /\ [][AuthNext]_vars

\* C20: while a tab is signed out, after a logout, its current session id is
\* null and its start rank 0, so that the first createChatEntry after the next
\* login starts a session of its own.
C20_SessionClearedOnLogout ==
  \A c \in Clients :
    userId[c] = "" => (currentSessionId[c] = NULL /\ currentSessionStartRank[c] = 0)

----------------------------------------------------------------------------
(* The session functions called on their own *)

\* The ranks setCurrentSession is called with.
StartRanks == 0..MaxClock

\* One tab whose code calls the three session functions with any arguments,
\* between appends.
ModuleNext ==
  \/ \E c \in SessClients : CreateRead(c)
  \/ \E c \in SessClients : CreateInsert(c)
  \/ \E c \in SessClients : StartNewSession(c)
  \/ \E c \in SessClients : \E sessionId \in Tokens : \E startRank \in StartRanks :
       SetCurrentSession(c, sessionId, startRank)
  \/ \E c \in SessClients : ClearCurrentSession(c)

ModuleSpec == SessInit /\ [][ModuleNext]_vars

\* C21: startNewSession, setCurrentSession and clearCurrentSession leave the
\* stored log of every user as it is, and setCurrentSession(id, r) makes the
\* current session id id and the start rank r.
C21_SessionOpsFrame ==
  [][\A c \in Clients :
       /\ (StartNewSession(c) \/ ClearCurrentSession(c)) => (chat_history' = chat_history)
       /\ \A sessionId \in Tokens : \A startRank \in StartRanks :
            SetCurrentSession(c, sessionId, startRank)
            => (/\ chat_history' = chat_history
                /\ currentSessionId'[c] = sessionId
                /\ currentSessionStartRank'[c] = startRank)]_vars

\* setCurrentSession('conv_2', 2) has returned on a stored log, with the
\* session attached elsewhere before.
C21_Witness ==
  /\ lastOp.op = "setCurrentSession" /\ lastOp.rank = 2
  /\ chat_history # {}
  /\ \E c \in SessClients :
       currentSessionId[c] = "conv_2" /\ currentSessionStartRank[c] = 2

----------------------------------------------------------------------------
(* Storage requests that fail *)

\* How a storage request can fail: it answers with an error object, or the
\* awaited call throws.
StorageFailures == {"error", "throws"}

\* A function without its catch block: the exception reaches the caller.
returnedOnFailure_Uncaught(outcome, onError, onCatch) ==
  IF outcome = "error" THEN [threw |-> FALSE, value |-> onError]
  ELSE [threw |-> TRUE, value |-> onCatch]

\* What the caller of a data-access function gets when a storage request
\* inside its try block fails: the value of the "if (error) return" branch
\* for an error, the value of the catch block for an exception.
returnedOnFailure(outcome, onError, onCatch) ==
  IF outcome = "error" THEN [threw |-> FALSE, value |-> onError]
  ELSE [threw |-> FALSE, value |-> onCatch]

\* fetchConversations whose select fails.
FetchConversationsFails(c, outcome) ==
  /\ pc[c] = "idle"
  /\ userId[c] # ""
  /\ LET r == returnedOnFailure(outcome, <<>>, <<>>)
     IN /\ fetched' = r.value
        /\ lastOp' = [NoOp EXCEPT !.op = "fetch", !.user = userId[c],
                                  !.storage = outcome, !.threw = r.threw]
  /\ UNCHANGED <<gemini, send, users, userId, chat_history, now, pc, loc, currentSessionId,
                 currentSessionStartRank, created, maxAssigned, anyDelete, sessionFresh>>

\* createChatEntry whose select of the maximum rank throws.
CreateReadThrows(c) ==
  /\ pc[c] = "idle"
  /\ userId[c] # ""
  /\ LET r == returnedOnFailure("throws", NULL, NULL)
     IN lastOp' = [NoOp EXCEPT !.op = "create", !.user = userId[c], !.chatId = r.value,
                               !.storage = "throws", !.threw = r.threw]
  /\ fetched' = <<>>
  /\ UNCHANGED <<gemini, send, users, userId, chat_history, now, pc, loc, currentSessionId,
                 currentSessionStartRank, created, maxAssigned, anyDelete, sessionFresh>>

\* createChatEntry whose insert request fails before it reaches the table.
CreateInsertFails(c, outcome) ==
  /\ pc[c] = "create_insert"
  /\ LET r == returnedOnFailure(outcome, NULL, NULL)
     IN lastOp' = [NoOp EXCEPT !.op = "create", !.user = userId[c], !.rank = loc[c].rank,
                               !.chatId = r.value, !.storage = outcome, !.threw = r.threw]
  /\ now' = now + 1
  /\ pc' = [pc EXCEPT ![c] = "idle"]
  /\ loc' = [loc EXCEPT ![c] = IdleLoc]
  /\ fetched' = <<>>
  /\ UNCHANGED <<gemini, send, users, userId, chat_history, currentSessionId,
                 currentSessionStartRank, created, maxAssigned, anyDelete, sessionFresh>>

\* deleteConversation whose select of the ranks fails.
DeleteReadFails(c, conversationId, outcome) ==
  /\ pc[c] = "idle"
  /\ LET startRank == parseInt(replace(replace(conversationId, "conv_"), "session_"))
         r == returnedOnFailure(outcome, FALSE, FALSE)
     IN /\ ~startRank.nan
        /\ lastOp' = [NoOp EXCEPT !.op = "delete", !.user = userId[c],
                                  !.rank = startRank.val, !.ok = r.value,
                                  !.storage = outcome, !.threw = r.threw]
  /\ fetched' = <<>>
  /\ UNCHANGED <<gemini, send, users, userId, chat_history, now, pc, loc, currentSessionId,
                 currentSessionStartRank, created, maxAssigned, anyDelete, sessionFresh>>

\* deleteConversation whose delete request fails before it reaches the table.
DeleteCommitFails(c, outcome) ==
  /\ pc[c] = "delete_commit"
  /\ LET r == returnedOnFailure(outcome, FALSE, FALSE)
     IN lastOp' = [NoOp EXCEPT !.op = "delete", !.user = userId[c], !.rank = loc[c].rank,
                               !.ok = r.value, !.storage = outcome, !.threw = r.threw]
  /\ fetched' = <<>>
  /\ loc' = [loc EXCEPT ![c] = IdleLoc]
  /\ pc' = [pc EXCEPT ![c] = "idle"]
  /\ UNCHANGED <<gemini, send, users, userId, chat_history, now, currentSessionId,
                 currentSessionStartRank, created, maxAssigned, anyDelete, sessionFresh>>

\* getConversationMessages whose select fails.
GetConversationMessagesFails(c, conversationId, outcome) ==
  /\ pc[c] = "idle"
  /\ userId[c] # ""
  /\ LET startRank == parseInt(replace(replace(conversationId, "conv_"), "session_"))
         r == returnedOnFailure(outcome, <<>>, <<>>)
     IN /\ ~startRank.nan
        /\ fetched' = r.value
        /\ lastOp' = [NoOp EXCEPT !.op = "messages", !.user = userId[c],
                                  !.rank = startRank.val, !.storage = outcome, !.threw = r.threw]
  /\ UNCHANGED <<gemini, send, users, userId, chat_history, now, pc, loc, currentSessionId,
                 currentSessionStartRank, created, maxAssigned, anyDelete, sessionFresh>>

\* One tab whose storage requests succeed or fail.
FaultNext ==
  \/ \E c \in SessClients : CreateRead(c)
  \/ \E c \in SessClients : CreateReadFails(c)
  \/ \E c \in SessClients : CreateReadThrows(c)
  \/ \E c \in SessClients : CreateInsert(c)
  \/ \E c \in SessClients : \E outcome \in StorageFailures : CreateInsertFails(c, outcome)
  \/ \E c \in SessClients : FetchConversations(c)
  \/ \E c \in SessClients : \E outcome \in StorageFailures : FetchConversationsFails(c, outcome)
  \/ \E c \in SessClients : \E id \in ConversationIds : DeleteRead(c, id)
  \/ \E c \in SessClients : \E id \in ConversationIds : \E outcome \in StorageFailures :
       DeleteReadFails(c, id, outcome)
  \/ \E c \in SessClients : DeleteCommit(c)
  \/ \E c \in SessClients : \E outcome \in StorageFailures : DeleteCommitFails(c, outcome)
  \/ \E c \in SessClients : \E id \in ConversationIds : GetConversationMessages(c, id)
  \/ \E c \in SessClients : \E id \in ConversationIds : \E outcome \in StorageFailures :
       GetConversationMessagesFails(c, id, outcome)

FaultSpec == SessInit /\ [][FaultNext]_vars

\* C22: whatever the outcome of its storage requests, no data-access function
\* throws to its caller: fetchConversations and getConversationMessages return
\* a list (the empty one after a failure), createChatEntry returns the chat id
\* of the row it stored or null, deleteConversation returns a boolean.
C22_NoExceptionEscapes ==
  /\ ~lastOp.threw
  /\ lastOp.op \in {"fetch", "messages"} =>
       /\ fetched = [i \in 1..Len(fetched) |-> fetched[i]]
       /\ (lastOp.storage # "ok" => fetched = <<>>)
  /\ lastOp.op = "create" =>
       \/ lastOp.chatId = NULL /\ ~lastOp.ok
       \/ lastOp.storage = "ok" /\ \E row \in chat_history : row.chat_id = lastOp.chatId
  /\ lastOp.op = "delete" =>
       /\ lastOp.ok \in BOOLEAN
       /\ (lastOp.storage # "ok" => ~lastOp.ok)

\* deleteConversation has returned after its delete request threw, with rows
\* stored.
C22_Witness ==
  /\ lastOp.op = "delete" /\ lastOp.storage = "throws" /\ lastOp.rank \in RanksOf(chat_history, "u")

----------------------------------------------------------------------------
(* Appends for a user without a row in users *)

\* Two tabs whose user ids were restored from localStorage; the rows of
\* table users are any of the two, and no chat row is stored yet.
FkInit ==
  /\ userId = [c \in Clients |-> IF c = "c1" THEN "u" ELSE "u1"]
  /\ users \in SUBSET Users
  /\ chat_history = {}
  /\ now = 0
  /\ pc = [c \in Clients |-> "idle"]
  /\ loc = [c \in Clients |-> IdleLoc]
  /\ currentSessionId = [c \in Clients |-> NULL]
  /\ currentSessionStartRank = [c \in Clients |-> 0]
  /\ lastOp = NoOp
  /\ fetched = <<>>
  /\ created = [u \in Users |-> 0]
  /\ maxAssigned = [u \in Users |-> 0]
  /\ anyDelete = FALSE
  /\ sessionFresh = [c \in Clients |-> FALSE]
  /\ send = [c \in Clients |-> NoSend]
  /\ gemini = [c \in Clients |-> NewService]

FkNext ==
  \/ \E c \in Clients : CreateRead(c)
  \/ \E c \in Clients : CreateInsert(c)
  \/ \E c \in Clients : FetchConversations(c)

FkSpec == FkInit /\ [][FkNext]_vars

\* C23: createChatEntry for a userId that has no row in users returns null,
\* inserts no chat_history row and creates no users row.
C23_ReferentialIntegrity ==
  [][\A c \in Clients :
       (userId[c] \notin users /\ pc[c] # pc'[c])
       => /\ users' = users
          /\ chat_history' = chat_history
          /\ (pc'[c] = "idle" =>
                (lastOp'.op = "create" /\ lastOp'.chatId = NULL /\ ~lastOp'.ok))]_vars

\* An append for a user without a users row has returned null while rows of
\* the other user are stored.
C23_Witness ==
  /\ lastOp.op = "create" /\ lastOp.user \notin users /\ ~lastOp.ok
  /\ chat_history # {}

----------------------------------------------------------------------------
(* Appends, deletions and re-rank passes together *)

IdNext ==
  \/ \E c \in Clients : CreateRead(c)
  \/ \E c \in Clients : CreateInsert(c)
  \/ \E c \in Clients : \E id \in ConversationIds : DeleteRead(c, id)
  \/ \E c \in Clients : DeleteCommit(c)
  \/ Rerank

IdSpec == Init /\ [][IdNext]_vars

\* C24: in every reachable state, after any sequence of appends, conversation
\* deletions and re-rank passes, the chat_id of every stored row is its
\* user_id followed by the decimal form of its chat_rank.
C24_IdDerivation ==
  \A row \in chat_history : row.chat_id = row.user_id \o Dec(row.chat_rank)

\* A re-rank pass has been run over two stored rows after a deletion.
C24_Witness ==
  /\ lastOp.op = "rerank"
  /\ anyDelete
  /\ Cardinality(chat_history) >= 2

----------------------------------------------------------------------------
(* The session around an append *)

\* One tab that appends, with reads and inserts that can fail, and starts,
\* selects and clears sessions in between.
LazyNext ==
  \/ \E c \in SessClients : CreateRead(c)
  \/ \E c \in SessClients : CreateReadFails(c)
  \/ \E c \in SessClients : CreateInsert(c)
  \/ \E c \in SessClients : \E outcome \in StorageFailures : CreateInsertFails(c, outcome)
  \/ \E c \in SessClients : NewConversation(c)
  \/ \E c \in SessClients : SelectConversation(c)
  \/ \E c \in SessClients : ClearCurrentSession(c)

LazySpec == SessInit /\ [][LazyNext]_vars

\* C25: a createChatEntry that has computed its rank while no session is
\* active sets the current session id to a newly generated id and the start
\* rank to the rank it is about to insert; while a session is active it
\* leaves both as they are; and the insert that follows, stored or not,
\* changes neither.
C25_LazySessionStart ==
  [][\A c \in Clients :
       /\ (pc[c] = "idle" /\ pc'[c] = "create_insert")
          => IF currentSessionId[c] = NULL
             THEN /\ \E rnd \in RandomSuffixes : currentSessionId'[c] = newSessionId(rnd)
                  /\ currentSessionStartRank'[c] = loc'[c].rank
                  /\ loc'[c].rank = nextRankOf(chat_history, userId[c])
             ELSE /\ currentSessionId'[c] = currentSessionId[c]
                  /\ currentSessionStartRank'[c] = currentSessionStartRank[c]
       /\ (pc[c] = "create_insert" /\ pc'[c] = "idle")
          => /\ currentSessionId'[c] = currentSessionId[c]
             /\ currentSessionStartRank'[c] = currentSessionStartRank[c]]_vars

\* An append made without a session has started one at its rank on a stored
\* log, and its insert has failed.
C25_Witness ==
  /\ lastOp.op = "create" /\ ~lastOp.ok /\ lastOp.rank > 1
  /\ \E c \in SessClients :
       /\ \E t \in 0..now : \E rnd \in RandomSuffixes :
            currentSessionId[c] = "session_" \o Dec(t) \o "_" \o rnd
       /\ currentSessionStartRank[c] = lastOp.rank

----------------------------------------------------------------------------
(* What a deletion reports *)

\* C26: a deleteConversation that returns true has removed at least one row
\* whose rank is the requested start rank; when no row has that rank, rows of
\* higher rank being stored, it returns false and deletes nothing.
C26_DeleteReportsRemoval ==
  [][\A c \in Clients :
       DeleteReturns(c) =>
         /\ lastOp'.ok =>
              \E row \in chat_history :
                row.chat_rank = loc[c].rank /\ row \notin chat_history'
         /\ (\A row \in chat_history : row.chat_rank # loc[c].rank) =>
              (~lastOp'.ok /\ chat_history' = chat_history)]_vars

----------------------------------------------------------------------------
(* The list, the messages and the deletion of one conversation *)

\* The ids of the conversations of the stored logs.
StoredConversationIds == {"conv_" \o Dec(r) : r \in 1..MaxRank}

\* One tab that loads the list and then opens or deletes conversations.
AgreeNext ==
  \/ \E c \in SessClients : FetchConversations(c)
  \/ \E c \in SessClients : \E id \in StoredConversationIds : GetConversationMessages(c, id)
  \/ \E c \in SessClients : \E id \in StoredConversationIds : DeleteRead(c, id)
  \/ \E c \in SessClients : DeleteCommit(c)

AgreeSpec == SegInit /\ [][AgreeNext]_vars

\* C27: for every conversation of the list fetchConversations has just
\* returned to a user, getConversationMessages called with its id returns
\* exactly its messages, and the rows deleteConversation called with its id
\* sets out to delete are exactly its entries.
C27_ReadSegmentAgreement ==
  [][\A c \in Clients : \A n \in 1..Len(fetched) :
       (lastOp.op = "fetch" /\ lastOp.user = userId[c])
       => /\ GetConversationMessages(c, fetched[n].id)
               => fetched' = fetched[n].messages
          /\ DeleteRead(c, fetched[n].id)
               => /\ pc'[c] = "delete_commit"
                  /\ chat_history \ deleteRange(chat_history, loc'[c].rank, loc'[c].endRank)
                       = {fetched[n].entries[i] : i \in 1..Len(fetched[n].entries)}]_vars

----------------------------------------------------------------------------
(* handleSendMessage *)

\* The ways the race between generateResponse and the 60-second timer ends:
\* generateResponse returns a text (an answer, or one of its own error
\* texts), generateResponse throws, or the timer rejects first.
RaceOutcomes ==
  {[kind |-> "returns", text |-> "Hi, how can I help?"],
   [kind |-> "returns", text |-> "Network error. Please check your internet connection."],
   [kind |-> "throws", text |-> "API key not configured."],
   [kind |-> "throws", text |-> "fetch failed"],
   [kind |-> "throws", text |-> "Request timed out after 60 seconds"]}

\* The catch block's choice of errorContent from error.message.
errorContentOf(message) ==
  IF includes(message, "timed out") THEN "The request timed out."
  ELSE IF includes(message, "overloaded") \/ includes(message, "503")
       THEN "The AI service is currently overloaded."
  ELSE IF includes(message, "API key") THEN "There seems to be an issue with the API configuration."
  ELSE IF includes(message, "not found") \/ includes(message, "404")
       THEN "The AI service is currently unavailable."
  ELSE IF includes(message, "quota") \/ includes(message, "limit")
       THEN "API usage limit reached."
  ELSE IF includes(message, "429") THEN "Too many requests."
  ELSE "Sorry, I encountered an error while processing your request. Please try again."

\* The entry is saved for guests too.
shouldSave_Guests(id, isGuest) == id # ""

\* userId && !isGuest
shouldSave(id, isGuest) == id # "" /\ ~isGuest

\* handleSendMessage up to the await of the race.
SendMessage(c, content) ==
  /\ send[c].phase = "idle"
  /\ userId[c] # ""
  /\ pc[c] = "idle"
  /\ now < MaxClock
  /\ send' = [send EXCEPT ![c] = [NoSend EXCEPT !.phase = "race", !.isGuest = send[c].isGuest,
                                                !.content = content]]
  /\ lastOp' = [NoOp EXCEPT !.op = "send", !.user = userId[c]]
  /\ fetched' = <<>>
  /\ UNCHANGED <<gemini, users, userId, chat_history, now, pc, loc, currentSessionId,
                 currentSessionStartRank, created, maxAssigned, anyDelete, sessionFresh>>

\* From the end of the race to the await of createChatEntry, in the try block
\* or in the catch block, or to the end of the handler when nothing is saved.
RaceSettles(c, outcome) ==
  /\ send[c].phase = "race"
  /\ LET aiResponse == IF outcome.kind = "returns" THEN outcome.text
                       ELSE errorContentOf(outcome.text)
         saves == shouldSave(userId[c], send[c].isGuest)
     IN send' = [send EXCEPT ![c] =
                   [@ EXCEPT !.phase = IF saves THEN "save" ELSE "idle",
                             !.aiResponse = aiResponse,
                             !.calls = IF saves
                                       THEN Append(@, [userRequest |-> send[c].content,
                                                       aiResponse |-> aiResponse])
                                       ELSE @]]
  /\ lastOp' = [NoOp EXCEPT !.op = "send", !.user = userId[c],
                            !.ok = (outcome.kind = "returns")]
  /\ fetched' = <<>>
  /\ UNCHANGED <<gemini, users, userId, chat_history, now, pc, loc, currentSessionId,
                 currentSessionStartRank, created, maxAssigned, anyDelete, sessionFresh>>

\* The createChatEntry call of the handler, run to its return, and the end of
\* the handler. storage: whether its requests reach the table.
SaveSettles(c, storage) ==
  /\ send[c].phase = "save"
  /\ \E rnd \in RandomSuffixes :
       LET call == send[c].calls[Len(send[c].calls)]
           nextRank == nextRankOf(chat_history, userId[c])
           row == [chat_id |-> userId[c] \o Dec(nextRank), user_id |-> userId[c],
                   user_request |-> call.userRequest, ai_response |-> call.aiResponse,
                   chat_rank |-> nextRank, created_at |-> now]
           inserted == storage = "ok" /\ fk_user(row) /\ InsertAllowed(row, chat_history)
       IN /\ chat_history' = IF inserted THEN chat_history \cup {row} ELSE chat_history
          /\ lastOp' = [NoOp EXCEPT !.op = "create", !.user = userId[c], !.rank = nextRank,
                                    !.ok = inserted, !.storage = storage,
                                    !.chatId = IF inserted THEN row.chat_id ELSE NULL]
          /\ IF falsy(currentSessionId[c])
             THEN /\ currentSessionId' = [currentSessionId EXCEPT ![c] = newSessionId(rnd)]
                  /\ currentSessionStartRank' =
                       [currentSessionStartRank EXCEPT ![c] = nextRank]
                  /\ sessionFresh' = [sessionFresh EXCEPT ![c] = ~inserted]
             ELSE /\ UNCHANGED <<currentSessionId, currentSessionStartRank>>
                  /\ sessionFresh' = IF inserted THEN [sessionFresh EXCEPT ![c] = FALSE]
                                     ELSE sessionFresh
          /\ created' = IF inserted THEN [created EXCEPT ![userId[c]] = @ + 1] ELSE created
          /\ maxAssigned' = IF inserted /\ nextRank > maxAssigned[userId[c]]
                            THEN [maxAssigned EXCEPT ![userId[c]] = nextRank]
                            ELSE maxAssigned
  /\ now' = now + 1
  /\ send' = [send EXCEPT ![c].phase = "idle"]
  /\ fetched' = <<>>
  /\ UNCHANGED <<gemini, users, userId, pc, loc, anyDelete>>

\* One tab, signed in as user "u" or opened as a guest, on an empty log or on
\* a log of one entry.
SendInit ==
  /\ \E isGuest \in BOOLEAN :
       /\ userId = [c \in Clients |->
                      IF c \in SessClients THEN (IF isGuest THEN "guest_0_k3x" ELSE "u") ELSE ""]
       /\ send = [c \in Clients |-> [NoSend EXCEPT !.isGuest = isGuest /\ c \in SessClients]]
  /\ \E n \in 0..1 : chat_history = StoredLog("u", 1..n)
  /\ now = 0
  /\ pc = [c \in Clients |-> "idle"]
  /\ loc = [c \in Clients |-> IdleLoc]
  /\ currentSessionId = [c \in Clients |-> NULL]
  /\ currentSessionStartRank = [c \in Clients |-> 0]
  /\ lastOp = NoOp
  /\ fetched = <<>>
  /\ created = [u \in Users |-> 0]
  /\ maxAssigned = [u \in Users |-> MaxClock]
  /\ anyDelete = TRUE
  /\ sessionFresh = [c \in Clients |-> FALSE]
  /\ users = Users
  /\ gemini = [c \in Clients |-> NewService]

SendNext ==
  \/ \E c \in SessClients : \E content \in Requests : SendMessage(c, content)
  \/ \E c \in SessClients : \E outcome \in RaceOutcomes : RaceSettles(c, outcome)
  \/ \E c \in SessClients : \E storage \in {"ok"} \cup StorageFailures : SaveSettles(c, storage)
  \/ \E c \in SessClients : NewConversation(c)

SendSpec == SendInit /\ [][SendNext]_vars

\* C28: a handleSendMessage call of a signed-in user who is not a guest has
\* issued, when it ends, exactly one createChatEntry call, with the user's
\* text and with the generated response or the error text, whether the race
\* ended with a response, an exception or the timeout; a guest's call has
\* issued none.
C28_OneAppendPerSend ==
  [][\A c \in Clients :
       (send[c].phase # "idle" /\ send'[c].phase = "idle")
       => IF userId[c] # "" /\ ~send[c].isGuest
          THEN /\ Len(send'[c].calls) = 1
               /\ send'[c].calls[1].userRequest = send'[c].content
               /\ send'[c].calls[1].aiResponse = send'[c].aiResponse
               /\ send'[c].aiResponse # ""
               /\ lastOp'.op = "create"
          ELSE /\ send'[c].calls = <<>>
               /\ chat_history' = chat_history]_vars

\* A send whose race timed out has ended after its createChatEntry stored the
\* error text.
C28_Witness ==
  /\ lastOp.op = "create" /\ lastOp.ok
  /\ \E c \in SessClients :
       /\ send[c].phase = "idle" /\ Len(send[c].calls) = 1
       /\ send[c].aiResponse = "The request timed out."
       /\ \E row \in chat_history : row.ai_response = "The request timed out."

----------------------------------------------------------------------------
(* GeminiService.generateResponse *)

\* const maxRetries = 3
maxRetries == 3

modelNames == <<"gemini-2.0-flash-exp", "gemini-1.5-flash-latest", "gemini-1.5-flash",
                "gemini-pro">>

RECURSIVE toLowerCase(_)
\* s.toLowerCase()
toLowerCase(s) ==
  IF s = "" THEN ""
  ELSE LET upper == "ABCDEFGHIJKLMNOPQRSTUVWXYZ"
           lower == "abcdefghijklmnopqrstuvwxyz"
           ch == SubSeq(s, 1, 1)
           at == {i \in 1..Len(upper) : SubSeq(upper, i, i) = ch}
       IN (IF at = {} THEN ch ELSE LET i == CHOOSE j \in at : TRUE IN SubSeq(lower, i, i))
            \o toLowerCase(SubSeq(s, 2, Len(s)))

\* How a call of model.generateContent ends: with a text, with an Error of
\* some message, or with a thrown value that is not an Error.
ModelOutcomes ==
  {[kind |-> "text", isError |-> FALSE, message |-> "Hi, how can I help?"],
   [kind |-> "error", isError |-> TRUE,
    message |-> "[404 Not Found] models/gemini-pro is not found"],
   [kind |-> "error", isError |-> TRUE, message |-> "[404 Not Found] upstream Timeout"],
   [kind |-> "error", isError |-> TRUE,
    message |-> "[503 Service Unavailable] The model is overloaded"],
   [kind |-> "error", isError |-> TRUE, message |-> "Network request failed"],
   [kind |-> "error", isError |-> TRUE, message |-> "[429 Too Many Requests] Quota exceeded"],
   [kind |-> "error", isError |-> FALSE, message |-> ""]}

\* The errors that are retried: network errors, timeouts and server errors.
transient(errorMessage) ==
  \/ includes(errorMessage, "network") \/ includes(errorMessage, "timeout")
  \/ includes(errorMessage, "overload") \/ includes(errorMessage, "502")
  \/ includes(errorMessage, "503") \/ includes(errorMessage, "504")

\* Waits that grow by one second.
backoffSeconds_Linear(retryCount) == retryCount + 1

\* Math.pow(2, retryCount) seconds
backoffSeconds(retryCount) == 2 ^ retryCount

\* The text returned for an error that is not retried.
errorTextOf(outcome) ==
  LET errorMessage == toLowerCase(outcome.message)
  IN IF ~outcome.isError
     THEN "Sorry, I encountered an error while processing your request. Please try again."
     ELSE IF includes(errorMessage, "overload") \/ includes(errorMessage, "503")
          THEN "The Gemini AI service is currently experiencing high traffic."
     ELSE IF includes(errorMessage, "api_key") \/ includes(errorMessage, "api key")
          THEN "Please check your Gemini API key."
     ELSE IF includes(errorMessage, "quota") \/ includes(errorMessage, "limit")
          THEN "API quota exceeded."
     ELSE IF includes(errorMessage, "safety")
          THEN "Your message was filtered for safety reasons."
     ELSE IF includes(errorMessage, "not found") \/ includes(errorMessage, "404")
          THEN "The requested model is not available."
     ELSE IF includes(errorMessage, "permission") \/ includes(errorMessage, "403")
          THEN "Permission denied."
     ELSE IF includes(errorMessage, "network") \/ includes(errorMessage, "fetch")
          THEN "Network error."
     ELSE IF includes(errorMessage, "429") THEN "Too many requests."
     ELSE "Sorry, I encountered an error while processing your request. Please try again."

\* generateResponse(message, attachments, conversationHistory) called by the
\* application, up to the await of model.generateContent; without an API key
\* it throws at once.
GenerateResponse(c, configured) ==
  /\ gemini[c].phase = "idle"
  /\ gemini' = [gemini EXCEPT ![c] =
                  IF configured
                  THEN [NewService EXCEPT !.currentModelIndex = gemini[c].currentModelIndex,
                                          !.phase = "generateContent"]
                  ELSE [NewService EXCEPT !.currentModelIndex = gemini[c].currentModelIndex,
                                          !.result = "thrown: API key not configured."]]
  /\ UNCHANGED <<userId, chat_history, now, pc, loc, currentSessionId, currentSessionStartRank,
                 lastOp, fetched, created, maxAssigned, anyDelete, sessionFresh, users, send>>

\* model.generateContent ends: the text is returned, or the catch block moves
\* to the next model (tryNextModel and the call with retryCount 0), starts
\* the wait before a retry, or returns an error text.
GenerateContentSettles(c, outcome) ==
  /\ gemini[c].phase = "generateContent"
  /\ LET g == [gemini[c] EXCEPT !.invocations = @ + 1]
     IN gemini' = [gemini EXCEPT ![c] =
          IF outcome.kind = "text"
          THEN [g EXCEPT !.phase = "idle", !.result = outcome.message]
          ELSE IF outcome.isError /\ includes(outcome.message, "404")
                  /\ g.currentModelIndex < Len(modelNames) - 1
          THEN [g EXCEPT !.currentModelIndex = @ + 1, !.retryCount = 0, !.waits = <<>>]
          ELSE IF g.retryCount < maxRetries /\ outcome.isError
                  /\ transient(toLowerCase(outcome.message))
          THEN [g EXCEPT !.phase = "wait", !.waits = Append(@, backoffSeconds(g.retryCount))]
          ELSE [g EXCEPT !.phase = "idle", !.result = errorTextOf(outcome)]]
  /\ UNCHANGED <<userId, chat_history, now, pc, loc, currentSessionId, currentSessionStartRank,
                 lastOp, fetched, created, maxAssigned, anyDelete, sessionFresh, users, send>>

\* The timer of the wait fires: generateResponse(..., retryCount + 1).
RetryAfterWait(c) ==
  /\ gemini[c].phase = "wait"
  /\ gemini' = [gemini EXCEPT ![c] = [@ EXCEPT !.phase = "generateContent",
                                               !.retryCount = @ + 1]]
  /\ UNCHANGED <<userId, chat_history, now, pc, loc, currentSessionId, currentSessionStartRank,
                 lastOp, fetched, created, maxAssigned, anyDelete, sessionFresh, users, send>>

LlmNext ==
  \/ \E c \in SessClients : \E configured \in BOOLEAN : GenerateResponse(c, configured)
  \/ \E c \in SessClients : \E outcome \in ModelOutcomes : GenerateContentSettles(c, outcome)
  \/ \E c \in SessClients : RetryAfterWait(c)

\* Every pending promise settles: the model answers or fails, and the timer
\* fires.
LlmSpec ==
  /\ SessInit
  /\ [][LlmNext]_vars
  /\ \A c \in SessClients :
       /\ WF_vars(\E outcome \in ModelOutcomes : GenerateContentSettles(c, outcome))
       /\ WF_vars(RetryAfterWait(c))

\* C29: every generateResponse call ends, after at most 4 model invocations
\* for each of the 4 model names: a transient error is retried at most 3
\* times for a model, after waits of 1, 2 and 4 seconds, a 404 moves to the
\* next model name with the retry count at 0 again, and a call that has ended
\* after an invocation has returned a text.
C29_RetryTerminates ==
  /\ [](\A c \in Clients :
          /\ gemini[c].invocations <= 4 * 4
          /\ gemini[c].currentModelIndex \in 0..3
          /\ gemini[c].retryCount \in 0..3
          /\ Len(gemini[c].waits) <= 3
          /\ \A i \in 1..Len(gemini[c].waits) : gemini[c].waits[i] = <<1, 2, 4>>[i]
          /\ (gemini[c].phase = "idle" /\ gemini[c].invocations > 0)
               => (gemini[c].result # "" /\ gemini[c].result # "thrown: API key not configured."))
  /\ \A c \in Clients : (gemini[c].phase # "idle") ~> (gemini[c].phase = "idle")

\* A call has ended with an error text after 16 invocations, the last of them
\* after waits of 1, 2 and 4 seconds on the last model name.
C29_Witness ==
  \E c \in SessClients :
    /\ gemini[c].phase = "idle" /\ gemini[c].invocations = 16
    /\ gemini[c].currentModelIndex = 3 /\ gemini[c].waits = <<1, 2, 4>>
    /\ gemini[c].result = "The Gemini AI service is currently experiencing high traffic."

----------------------------------------------------------------------------
(* Chat ids of two users *)

\* Two tabs signed in as users "u" and "u1"; "u" has a stored log of
\* consecutive ranks from 1 on, "u1" has none yet.
InjectInit ==
  /\ userId = [c \in Clients |-> IF c = "c1" THEN "u" ELSE "u1"]
  /\ \E n \in 0..(MaxRank + MaxClock + 1) : chat_history = StoredLog("u", 1..n)
  /\ now = 0
  /\ pc = [c \in Clients |-> "idle"]
  /\ loc = [c \in Clients |-> IdleLoc]
  /\ currentSessionId = [c \in Clients |-> NULL]
  /\ currentSessionStartRank = [c \in Clients |-> 0]
  /\ lastOp = NoOp
  /\ fetched = <<>>
  /\ created = [u \in Users |-> 0]
  /\ maxAssigned = [u \in Users |-> 0]
  /\ anyDelete = FALSE
  /\ sessionFresh = [c \in Clients |-> FALSE]
  /\ send = [c \in Clients |-> NoSend]
  /\ gemini = [c \in Clients |-> NewService]
  /\ users = Users

InjectNext ==
  \/ \E c \in Clients : CreateRead(c)
  \/ \E c \in Clients : CreateInsert(c)
  \/ \E c \in Clients : FetchConversations(c)

InjectSpec == InjectInit /\ [][InjectNext]_vars

\* C30: the chat ids of two different pairs of user id and rank differ, so
\* that the insert of an append is rejected only when a row of the same user
\* has the same rank, never because of a row of another user.
C30_IdInjectivity ==
  [][\A c \in Clients :
       (pc[c] = "create_insert" /\ pc'[c] = "idle")
       => /\ \A row \in chat_history :
               (row.user_id # userId[c] \/ row.chat_rank # loc[c].rank)
               => row.chat_id # NewRow(c).chat_id
          /\ ~lastOp'.ok
               => \E row \in chat_history :
                    row.user_id = userId[c] /\ row.chat_rank = loc[c].rank]_vars

====
